---- MODULE Spec2Model ----
(***************************************************************************)
(* Model of WhisperGPUService (src/src/services/whisper_gpu.py): the model *)
(* lifecycle (active preference, lazily loaded handle, switch, delete,     *)
(* download) and the transcription paths (whole file, segmented,           *)
(* benchmark), with the files they create and remove.                      *)
(*                                                                         *)
(* Each caller executes one service method at a time; a method that the    *)
(* claims need to observe part-way (_load_model, transcribe_audio,         *)
(* transcribe_segments, benchmark_performance) is a sequence of steps      *)
(* indexed by call[c].pc, the others are one step.  Spec is the sequential *)
(* use of the service: a method starts only when no other is in flight.    *)
(***************************************************************************)
EXTENDS Integers, Sequences, FiniteSets, TLC

(***************************************************************************)
(* Values                                                                  *)
(***************************************************************************)
None == "None"          \* Python's None
Absent == "<absent>"    \* a file that does not exist

AVAILABLE_MODELS == {"turbo", "medium", "large-v3"}

\* identifiers a caller may pass: the catalog and one that is not cataloged
ModelArgs == AVAILABLE_MODELS \cup {"bogus"}

\* values of the WHISPER_MODEL environment variable
EnvValues == {None, "", "medium", "bogus"}

\* contents of data/models/active_model.txt at start-up
Unreadable == "<unreadable>"   \* a file whose read_text() raises
MarkerValues == {Absent, Unreadable, "turbo", "large-v3", "medium\n", "bogus"}

Devices == {"cuda", "cpu"}

Callers == {"c1", "c2"}

\* attributes that __init__ sets on the service instance
InstanceAttrs ==
  {"model", "current_model_name", "device", "models_cache_dir", "active_model"}

\* exceptions are values; "" means no exception
NoExc == ""

(***************************************************************************)
(* Paths.  A path string is [pre, stem, ext]; pre is "" or "./".           *)
(* str(Path(s)) drops a leading "./" (pathlib normalisation).              *)
(***************************************************************************)
NoPath == [pre |-> "", stem |-> "", ext |-> ""]

MkPath(pre, stem, ext) == [pre |-> pre, stem |-> stem, ext |-> ext]

\* str(Path(p))
PathStr(p) == [p EXCEPT !.pre = ""]

\* str.lower() on the suffixes the model uses
Lower(s) == CASE s = ".WAV" -> ".wav"
              [] s = ".MP3" -> ".mp3"
              [] OTHER -> s

\* Path(p).parent / f"{Path(p).stem}_temp.wav"
TempWavOf(p) == MkPath("", p.stem \o "_temp", ".wav")

\* Path(p).parent / f"temp_segment_{i}.wav"   (i is the 0-based index)
TempSegmentOf(p, i) ==
  MkPath("", "temp_segment_" \o (IF i = 0 THEN "0" ELSE IF i = 1 THEN "1"
                                 ELSE IF i = 2 THEN "2" ELSE "3"), ".wav")

\* models_cache_dir / 'benchmark_test.wav'
BenchmarkPath == MkPath("", "benchmark_test", ".wav")

\* the audio paths a caller passes
SrcMp3 == MkPath("", "a", ".mp3")
SrcWav == MkPath("", "a", ".wav")
SrcDotWav == MkPath("./", "a", ".wav")
SrcGone == MkPath("", "gone", ".mp3")
AudioArgs == {SrcMp3, SrcWav, SrcDotWav, SrcGone}

(***************************************************************************)
(* Files of the model cache.  whisper.load_model(name, download_root=dir)  *)
(* stores the checkpoint under the basename of its URL.                    *)
(***************************************************************************)
CacheFileOf(m) == CASE m = "turbo" -> "large-v3-turbo.pt"
                    [] m = "medium" -> "medium.pt"
                    [] m = "large-v3" -> "large-v3.pt"
                    [] OTHER -> "?"

\* does file name f match the glob pattern "*<m>*"
GlobMatches(f, m) ==
  \/ f = CacheFileOf(m)
  \/ m = "large-v3" /\ f = "large-v3-turbo.pt"

VARIABLES
  model,               \* self.model: None, or the identifier of the model object
  current_model_name,  \* self.current_model_name
  active_model,        \* self.active_model
  device,              \* self.device
  env,                 \* os.environ WHISPER_MODEL
  marker,              \* content of models_cache_dir/active_model.txt, or Absent
  markerWritable,      \* can active_model.txt be written
  cache,               \* names of the checkpoint files in models_cache_dir
  fs,                  \* audio files: normalised path -> content
  call,                \* per caller: the method in flight and its locals
  last                 \* the call that returned most recently

handle == <<model, current_model_name>>
vars == <<model, current_model_name, active_model, device, env, marker,
          markerWritable, cache, fs, call, last>>

(***************************************************************************)
(* Results                                                                 *)
(***************************************************************************)
\* a dict returned by the service; keys names the keys that are present
NoDict == [keys |-> {}, success |-> FALSE, text |-> <<>>, error |-> NoExc,
           model_used |-> None, device_used |-> None,
           processing_time_seconds |-> 0, audio_duration_seconds |-> 0,
           segments |-> <<>>, total_processing_time_seconds |-> 0,
           test_duration_seconds |-> 0, speed_multiplier |-> <<0, 1>>]

\* how a call ended: `return ok` / `return dict` / `raise exc`
RetBool(b) == [kind |-> "return", ok |-> b, exc |-> NoExc, dict |-> NoDict]
RetDict(d) == [kind |-> "return", ok |-> "error" \notin d.keys, exc |-> NoExc, dict |-> d]
Raise(e) == [kind |-> "raise", ok |-> FALSE, exc |-> e, dict |-> NoDict]

\* what whisper's transcribe returns
NoResult == [text |-> <<>>, hasSegments |-> FALSE, segments |-> <<>>]

\* the service state a call starts from
Snapshot == [model |-> model, current_model_name |-> current_model_name,
             active_model |-> active_model, marker |-> marker, fs |-> fs,
             cache |-> cache]

NoSnap == [model |-> None, current_model_name |-> None, active_model |-> None,
           marker |-> Absent, fs |-> <<>>, cache |-> {}]

\* a caller's locals: op is the method called, pc its position ("done": it has
\* returned ret), name / path / windows / dur its arguments, pre the service
\* state it started from; the rest are locals of the methods it runs
IdleCall == [op |-> "none", pc |-> "idle", name |-> None, path |-> NoPath,
             windows |-> <<>>, dur |-> 0, pre |-> NoSnap,
             lmRet |-> "", loadingId |-> None, loads |-> 0,
             taPath |-> NoPath, processed |-> NoPath, made |-> FALSE,
             mobj |-> None, infer |-> "", result |-> NoResult, ptime |-> 0,
             exc |-> NoExc, i |-> 0, acc |-> <<>>, total |-> 0,
             ret |-> RetBool(FALSE)]

\* the locals of a call of method op that starts now
NewCall(op) == [IdleCall EXCEPT !.op = op, !.pre = Snapshot]

AllIdle == \A c \in Callers : call[c].pc = "idle"

\* what is remembered of the call that returned most recently: the method,
\* and for the two methods whose repetition the service treats specially
\* (switch_model, load_model) the model name and whether it returned True
\* (unloaded: it cleared a loaded handle; cold: it started with no model
\* loaded; loads: the whisper.load_model calls it made)
Summary(k) ==
  IF k.op \in {"switch_model", "load_model"}
  THEN [op |-> k.op, name |-> k.name, ok |-> k.ret.kind = "return" /\ k.ret.ok,
        unloaded |-> k.pre.model # None /\ model = None,
        cold |-> k.pre.model = None, loads |-> k.loads]
  ELSE [op |-> k.op, name |-> None, ok |-> FALSE, unloaded |-> FALSE,
        cold |-> FALSE, loads |-> 0]

NoCall == [op |-> "none", name |-> None, ok |-> FALSE, unloaded |-> FALSE,
           cold |-> FALSE, loads |-> 0]

\* caller c goes on with locals k / the method returns (or raises) ret
Goto(c, k) == call' = [call EXCEPT ![c] = k] /\ last' = last
Return(c, k, ret) ==
  /\ call' = [call EXCEPT ![c] =
                [k EXCEPT !.pc = "done", !.ret = ret,
                          \* the frames of the methods are gone
                          !.lmRet = "", !.loadingId = None, !.mobj = None,
                          !.result = NoResult, !.ptime = 0, !.exc = NoExc,
                          !.i = 0, !.acc = <<>>, !.total = 0]]
  /\ last' = last

(***************************************************************************)
(* __init__ and _get_active_model                                          *)
(***************************************************************************)
\* _get_active_model: environment, then marker file, then 'turbo'
\* str.strip() on the marker contents the model uses
StripText(s) == CASE s = "medium\n" -> "medium"
                  [] OTHER -> s

\* lines 77-86 left out: the marker file is not looked at
GetActiveModelEnvOnly(e, m) ==
  IF e # None /\ e # "" /\ e \in AVAILABLE_MODELS THEN e ELSE "turbo"

\* line 84 before line 73: the marker file is looked at first
GetActiveModelMarkerFirst(e, m) ==
  IF m # Absent /\ m # Unreadable /\ StripText(m) \in AVAILABLE_MODELS
  THEN StripText(m)
  ELSE IF e # None /\ e # "" /\ e \in AVAILABLE_MODELS THEN e
  ELSE "turbo"

GetActiveModel(e, m) ==
  IF e # None /\ e # "" /\ e \in AVAILABLE_MODELS THEN e
  ELSE IF m # Absent /\ m # Unreadable /\ StripText(m) \in AVAILABLE_MODELS
  THEN StripText(m)
  ELSE "turbo"

\* what the callers have seen of a service that was just constructed
Constructed == [op |-> "__init__", name |-> None, ok |-> FALSE,
                unloaded |-> FALSE, cold |-> FALSE, loads |-> 0]

\* the service after construction, on one of the devices devs, with the
\* environment one of envs and the marker file one of markers
InitOn(devs, envs, markers) ==
  /\ model = None
  /\ current_model_name = None
  /\ device \in devs
  /\ env \in envs
  /\ marker \in markers
  /\ active_model = GetActiveModel(env, marker)
  /\ markerWritable = TRUE
  /\ cache = {}
  /\ fs = (SrcMp3 :> "orig-mp3") @@ (SrcWav :> "orig-wav")
  /\ call = [c \in Callers |-> IdleCall]
  /\ last = Constructed

\* the process is started again with the environment one of envs: the module
\* constructs a new service (line 460); the files stay
Restart(envs) ==
  /\ AllIdle
  /\ env' \in envs
  /\ model' = None
  /\ current_model_name' = None
  /\ active_model' = GetActiveModel(env', marker)
  /\ last' = Constructed
  /\ UNCHANGED <<device, marker, markerWritable, cache, fs, call>>

(***************************************************************************)
(* _set_active_model and switch_model                                      *)
(***************************************************************************)
\* _set_active_model without the catalog check of line 92
SetActiveModelOkUnchecked(model_name) == markerWritable

\* _set_active_model with the except branch of lines 102-104 left out: a
\* write that failed goes unnoticed
SetActiveModelOkUnwritten(model_name) == model_name \in AVAILABLE_MODELS

\* _set_active_model returns True: the name is cataloged and write_text works
SetActiveModelOk(model_name) ==
  model_name \in AVAILABLE_MODELS /\ markerWritable

\* line 176 with the comparison inverted
SwitchUnloadsInverted(model_name) ==
  model # None /\ current_model_name = model_name

\* line 176 never taken: the unload is forgotten
SwitchUnloadsNever(model_name) == FALSE

\* line 176 taken only when the name was the active preference already
SwitchUnloadsIfActive(model_name) ==
  model # None /\ current_model_name # model_name /\ active_model = model_name

\* switch_model line 176: a model is loaded and it is a different one
SwitchUnloads(model_name) ==
  model # None /\ current_model_name # model_name

switch_model(c, model_name) ==
  /\ call[c].pc = "idle"
  /\ LET k == [NewCall("switch_model") EXCEPT !.name = model_name] IN
     IF ~SetActiveModelOk(model_name)
     THEN /\ Return(c, k, RetBool(FALSE))
          /\ UNCHANGED <<model, current_model_name, active_model, marker>>
     ELSE /\ marker' = model_name
          /\ active_model' = model_name
          /\ IF SwitchUnloads(model_name)
             THEN model' = None /\ current_model_name' = None
             ELSE UNCHANGED <<model, current_model_name>>
          /\ Return(c, k, RetBool(TRUE))
  /\ UNCHANGED <<device, env, markerWritable, cache, fs>>

(***************************************************************************)
(* download_model and delete_model                                         *)
(***************************************************************************)
\* download_model: whisper.load_model fetches the checkpoint into the cache
\* directory (or raises); the model object it returns is dropped.
download_model(c, model_name) ==
  /\ call[c].pc = "idle"
  /\ LET k == [NewCall("download_model") EXCEPT !.name = model_name] IN
     IF model_name \notin AVAILABLE_MODELS
     THEN Return(c, k, RetBool(FALSE)) /\ UNCHANGED cache
     ELSE \E fetched \in BOOLEAN :
            IF fetched
            THEN /\ cache' = cache \cup {CacheFileOf(model_name)}
                 /\ Return(c, k, RetBool(TRUE))
            ELSE Return(c, k, RetBool(FALSE)) /\ UNCHANGED cache
  /\ UNCHANGED <<model, current_model_name, active_model, device, env, marker,
                 markerWritable, fs>>

\* line 146 with the pattern '*': every file of the cache is found
ModelFilesAny(model_name) == cache

\* the files delete_model's glob finds
ModelFiles(model_name) == {f \in cache : GlobMatches(f, model_name)}

\* delete_model line 157: the deleted name is the loaded one
DeleteClears(model_name) == current_model_name = model_name

\* delete_model: unlinks the files the glob found, one by one; an unlink that
\* raises ends the loop with the files before it (gone) removed.
delete_model(c, model_name) ==
  /\ call[c].pc = "idle"
  /\ LET k == [NewCall("delete_model") EXCEPT !.name = model_name] IN
     IF model_name \notin AVAILABLE_MODELS
     THEN /\ Return(c, k, RetBool(FALSE))
          /\ UNCHANGED <<model, current_model_name, cache>>
     ELSE \E gone \in SUBSET ModelFiles(model_name) :
            /\ cache' = cache \ gone
            /\ IF gone # ModelFiles(model_name)
               THEN \* unlink raised: except branch
                    /\ Return(c, k, RetBool(FALSE))
                    /\ UNCHANGED <<model, current_model_name>>
               ELSE IF gone # {}
               THEN /\ IF DeleteClears(model_name)
                       THEN model' = None /\ current_model_name' = None
                       ELSE UNCHANGED <<model, current_model_name>>
                    /\ Return(c, k, RetBool(TRUE))
               ELSE /\ Return(c, k, RetBool(FALSE))
                    /\ UNCHANGED <<model, current_model_name>>
  /\ UNCHANGED <<active_model, device, env, marker, markerWritable, fs>>

\* the longest window list a caller passes
MaxWindows == 2

(***************************************************************************)
(* Text and results of an inference                                        *)
(***************************************************************************)
RECURSIVE LStrip(_)
LStrip(t) == IF t # <<>> /\ Head(t) = " " THEN LStrip(Tail(t)) ELSE t

RECURSIVE RStrip(_)
RStrip(t) == IF t # <<>> /\ t[Len(t)] = " " THEN RStrip(SubSeq(t, 1, Len(t) - 1))
             ELSE t

\* str.strip() on a text given as its sequence of characters
Strip(t) == RStrip(LStrip(t))

\* results whisper's transcribe may return: one segment, an empty segment
\* list, no 'segments' key
OneSegment ==
  [text |-> <<" ", "o", "i">>, hasSegments |-> TRUE,
   segments |-> << [start |-> 0, end |-> 7, text |-> <<" ", "o", "i">>] >>]

InferResults ==
  { OneSegment,
    [text |-> <<>>, hasSegments |-> TRUE, segments |-> <<>>],
    [text |-> <<"o", "i", " ">>, hasSegments |-> FALSE, segments |-> <<>>] }

\* time.time() - start_time, in tenths of a second
ProcTimes == {0, 4, 25}

\* int(processing_time)
IntSeconds(pt) == pt \div 10

\* evaluating self.model_name raises AttributeError
ModelNameRaises == "model_name" \notin InstanceAttrs

\* self.model_name, were it an attribute
ModelNameValue == current_model_name

\* result.get('segments', [{}])[-1].get('end', 0)
\* (the default [{}] applies only when the key is missing)
LastEndRaises(r) == r.hasSegments /\ r.segments = <<>>
LastEnd(r) == IF r.hasSegments /\ r.segments # <<>>
              THEN r.segments[Len(r.segments)].end ELSE 0

\* the segments list of the response (lines 295-302)
ResponseSegments(r) ==
  [j \in 1..Len(r.segments) |->
     [start |-> r.segments[j].start, end |-> r.segments[j].end,
      text |-> Strip(r.segments[j].text)]]

\* lines 305-318: the response dict and the completion log line, evaluated in
\* source order; the exception the evaluation raises, or NoExc
ResponseExc(r, pt) ==
  IF LastEndRaises(r) THEN "IndexError"
  ELSE IF ModelNameRaises THEN "AttributeError"
  ELSE IF pt = 0 THEN "ZeroDivisionError"
  ELSE NoExc

Response(r, pt) ==
  [NoDict EXCEPT
     !.keys = {"text", "language", "segments", "processing_time_seconds",
               "audio_duration_seconds", "model_used", "device_used",
               "file_size_mb", "success"},
     !.text = Strip(r.text), !.segments = ResponseSegments(r),
     !.processing_time_seconds = IntSeconds(pt),
     !.audio_duration_seconds = LastEnd(r),
     !.model_used = ModelNameValue, !.device_used = device,
     !.success = TRUE]

\* lines 324-331: the failure dict of transcribe_audio's except branch
FailureExc == IF ModelNameRaises THEN "AttributeError" ELSE NoExc

Failure(e) ==
  [NoDict EXCEPT
     !.keys = {"text", "error", "success", "processing_time_seconds",
               "model_used", "device_used"},
     !.text = <<>>, !.error = e, !.success = FALSE,
     !.processing_time_seconds = 0,
     !.model_used = ModelNameValue, !.device_used = device]

(***************************************************************************)
(* Files                                                                   *)
(***************************************************************************)
Exists(f, p) == PathStr(p) \in DOMAIN f

\* the file system f after writing content d to path p
WriteFile(f, p, d) ==
  [q \in DOMAIN f \cup {PathStr(p)} |-> IF q = PathStr(p) THEN d ELSE f[q]]

\* Path(p).unlink(missing_ok=True)
Unlink(f, p) == [q \in DOMAIN f \ {PathStr(p)} |-> f[q]]

(***************************************************************************)
(* What the callers of transcribe_audio do with its outcome                *)
(***************************************************************************)
\* '\n\n'.join(texts)
RECURSIVE Join(_)
Join(texts) ==
  IF texts = <<>> THEN <<>>
  ELSE IF Len(texts) = 1 THEN texts[1]
  ELSE texts[1] \o <<"\n", "\n">> \o Join(Tail(texts))

\* lines 372-380: the entry appended for window i (0-based) on success
SegmentEntry(k, d) ==
  [segment_number |-> k.i + 1,
   start_time |-> k.windows[k.i + 1][1], end_time |-> k.windows[k.i + 1][2],
   duration |-> k.windows[k.i + 1][2] - k.windows[k.i + 1][1],
   text |-> d.text, processing_time |-> d.processing_time_seconds]

\* lines 386-395: the aggregate of transcribe_segments
SegmentsExc == IF ModelNameRaises THEN "AttributeError" ELSE NoExc

SegmentsSuccess(acc, total) ==
  [NoDict EXCEPT
     !.keys = {"text", "segments", "total_processing_time_seconds",
               "model_used", "device_used", "success"},
     !.text = Join([j \in 1..Len(acc) |-> acc[j].text]),
     !.segments = acc, !.total_processing_time_seconds = total,
     !.model_used = ModelNameValue, !.device_used = device, !.success = TRUE]

\* lines 399-405: the dict of transcribe_segments' except branch
SegmentsFailure(e) ==
  [NoDict EXCEPT
     !.keys = {"text", "error", "success", "segments",
               "total_processing_time_seconds"},
     !.text = <<>>, !.error = e, !.success = FALSE]

\* lines 446-456: what benchmark_performance returns for the dict d
BenchmarkExc(d) ==
  IF ~d.success THEN NoExc
  ELSE IF d.processing_time_seconds = 0 THEN "ZeroDivisionError"
  ELSE IF ModelNameRaises THEN "AttributeError"
  ELSE NoExc

BenchmarkDict(dur, d) ==
  IF d.success
  THEN [NoDict EXCEPT
          !.keys = {"test_duration_seconds", "processing_time_seconds",
                    "speed_multiplier", "device", "model", "gpu_stats"},
          !.test_duration_seconds = dur,
          !.processing_time_seconds = d.processing_time_seconds,
          !.speed_multiplier = <<dur, d.processing_time_seconds>>,
          !.device_used = device, !.model_used = ModelNameValue]
  ELSE [NoDict EXCEPT !.keys = {"error"}, !.error = d.error]

\* app.py, render_gpu_tab: the file the "Test Transcription" button saves
UploadPath(ext) == MkPath("", "data/temp_test_audio/upload", ext)
UploadExts == {".mp3", ".wav", ".WAV"}

\* app.py lines 393-412: what the tab shows for the outcome ret of
\* transcribe_audio: the metrics (the speed only when the duration is
\* positive), or st.error with the failure's error or the exception's text
SpeedRaises(d) ==
  d.audio_duration_seconds > 0 /\ d.processing_time_seconds = 0

Display(ret) ==
  IF ret.kind = "raise"
  THEN [NoDict EXCEPT !.keys = {"error"}, !.error = ret.exc]
  ELSE IF ~ret.dict.success
  THEN [NoDict EXCEPT !.keys = {"error"}, !.error = ret.dict.error]
  ELSE IF SpeedRaises(ret.dict)
  THEN [NoDict EXCEPT !.keys = {"error"}, !.error = "ZeroDivisionError"]
  ELSE [NoDict EXCEPT
          !.keys = {"text", "processing_time_seconds", "file_size_mb"}
                   \cup (IF ret.dict.audio_duration_seconds > 0
                         THEN {"speed_multiplier"} ELSE {}),
          !.success = TRUE, !.text = ret.dict.text,
          !.processing_time_seconds = ret.dict.processing_time_seconds,
          !.speed_multiplier =
             IF ret.dict.audio_duration_seconds > 0
             THEN <<ret.dict.audio_duration_seconds,
                    ret.dict.processing_time_seconds>>
             ELSE NoDict.speed_multiplier]

\* transcribe_audio, run with locals k, ends with ret and leaves the files f:
\* the code of its caller up to that caller's next step
TaExit(c, k, ret, f) ==
  IF k.op = "transcribe_audio" \/ (k.op = "transcribe_segments" /\ k.windows = <<>>)
  THEN fs' = f /\ Return(c, k, ret)
  ELSE IF k.op = "transcribe_segments"
  THEN IF ret.kind = "raise"
       THEN \* line 397: the except of transcribe_segments
            fs' = f /\ Goto(c, [k EXCEPT !.pc = "ts_except", !.exc = ret.exc])
       ELSE \* lines 371-383, then the next window or lines 386-395
            LET k1 == IF ret.dict.success
                      THEN [k EXCEPT
                              !.acc = Append(k.acc, SegmentEntry(k, ret.dict)),
                              !.total = k.total + ret.dict.processing_time_seconds]
                      ELSE k
            IN /\ fs' = Unlink(f, TempSegmentOf(k.path, k.i))
               /\ IF k.i + 1 < Len(k.windows)
                  THEN Goto(c, [k1 EXCEPT !.pc = "ts_export", !.i = k.i + 1])
                  ELSE IF SegmentsExc # NoExc
                  THEN Goto(c, [k1 EXCEPT !.pc = "ts_except", !.exc = SegmentsExc])
                  ELSE Return(c, k1, RetDict(SegmentsSuccess(k1.acc, k1.total)))
  ELSE IF k.op = "render_gpu_tab"
  THEN \* app.py lines 393-414: the display, then the finally
       /\ fs' = Unlink(f, k.path)
       /\ Return(c, k, RetDict(Display(ret)))
  ELSE \* benchmark_performance, lines 441-456
       IF ret.kind = "raise"
       THEN fs' = f /\ Return(c, k, ret)
       ELSE /\ fs' = Unlink(f, BenchmarkPath)
            /\ IF BenchmarkExc(ret.dict) # NoExc
               THEN Return(c, k, Raise(BenchmarkExc(ret.dict)))
               ELSE Return(c, k, RetDict(BenchmarkDict(k.dur, ret.dict)))

\* _load_model, called with locals k, returns b: the code of its caller up to
\* that caller's next step
LmReturn(c, k, b) ==
  IF k.lmRet = "load_model"
  THEN fs' = fs /\ Return(c, k, RetBool(b))
  ELSE IF k.lmRet = "transcribe_audio"
  THEN IF b
       THEN fs' = fs /\ Goto(c, [k EXCEPT !.pc = "ta_prepare"])
       ELSE TaExit(c, k, Raise("RuntimeError"), fs)
  ELSE \* benchmark_performance, lines 429-430
       IF b
       THEN fs' = fs /\ Goto(c, [k EXCEPT !.pc = "bm_synth"])
       ELSE fs' = fs /\ Return(c, k, RetDict([NoDict EXCEPT
                                                !.keys = {"error"},
                                                !.error = "Model failed to load"]))

(***************************************************************************)
(* _load_model and load_model                                              *)
(***************************************************************************)
\* line 185 never taken: every call loads again
AlreadyLoadedNever == FALSE

\* line 185: the active model is the one that is loaded
AlreadyLoaded == model # None /\ current_model_name = active_model

\* lines 185-190
LoadModelCheck(c) ==
  /\ call[c].pc = "lm_check"
  /\ LET k == call[c] IN
     IF AlreadyLoaded THEN LmReturn(c, k, TRUE)
     ELSE IF active_model = None THEN LmReturn(c, k, FALSE)
     ELSE /\ fs' = fs
          /\ Goto(c, [k EXCEPT !.pc = "lm_loading", !.loadingId = active_model,
                               !.loads = k.loads + 1])
  /\ UNCHANGED <<model, current_model_name, active_model, device, env, marker,
                 markerWritable, cache>>

\* line 203 moved before the load: the name is set whether or not it succeeds
NameSetBeforeLoad(loaded) == active_model

\* self.current_model_name after the load: line 203 on success, untouched by
\* the except branch (lines 208-210)
NameAfterLoad(loaded) == IF loaded THEN active_model ELSE current_model_name

\* lines 197-210: whisper.load_model returns the model, or raises; the
\* checkpoint may have reached the cache directory either way
LoadModelFinish(c) ==
  /\ call[c].pc = "lm_loading"
  /\ LET k == call[c] IN
     \E loaded \in BOOLEAN, stored \in BOOLEAN :
       /\ cache' = IF loaded \/ stored THEN cache \cup {CacheFileOf(k.loadingId)}
                   ELSE cache
       /\ current_model_name' = NameAfterLoad(loaded)
       /\ IF loaded
          THEN model' = k.loadingId /\ LmReturn(c, k, TRUE)
          ELSE model' = model /\ LmReturn(c, k, FALSE)
  /\ UNCHANGED <<active_model, device, env, marker, markerWritable>>

load_model(c) ==
  /\ call[c].pc = "idle"
  /\ Goto(c, [NewCall("load_model") EXCEPT !.pc = "lm_check", !.lmRet = "load_model"])
  /\ UNCHANGED <<model, current_model_name, active_model, device, env, marker,
                 markerWritable, cache, fs>>

(***************************************************************************)
(* transcribe_audio                                                        *)
(***************************************************************************)
\* the locals of transcribe_audio(p) started inside the call with locals k
EnterTranscribe(k, p) ==
  [k EXCEPT !.pc = "lm_check", !.lmRet = "transcribe_audio", !.taPath = p,
            !.processed = NoPath, !.made = FALSE, !.mobj = None, !.infer = "",
            !.result = NoResult, !.ptime = 0, !.exc = NoExc]

transcribe_audio(c, audio_path) ==
  /\ call[c].pc = "idle"
  /\ Goto(c, EnterTranscribe([NewCall("transcribe_audio") EXCEPT !.path = audio_path],
                             audio_path))
  /\ UNCHANGED <<model, current_model_name, active_model, device, env, marker,
                 markerWritable, cache, fs>>

\* line 231 without lower(): the suffix is compared as it is spelled
NeedsConversionCaseSensitive(p) == p.ext # ".wav"

\* line 231: the suffix is not the canonical one
NeedsConversion(p) == Lower(p.ext) # ".wav"

\* line 272, _prepare_audio (lines 220-253)
TaPrepare(c) ==
  /\ call[c].pc = "ta_prepare"
  /\ LET k == call[c] IN
     IF ~Exists(fs, k.taPath)
     THEN fs' = fs /\ Goto(c, [k EXCEPT !.pc = "ta_except", !.exc = "FileNotFoundError"])
     ELSE IF NeedsConversion(k.taPath)
     THEN \E decoded \in BOOLEAN :
            IF decoded
            THEN /\ fs' = WriteFile(fs, TempWavOf(k.taPath), "wav16k")
                 /\ Goto(c, [k EXCEPT !.pc = "ta_infer", !.made = TRUE,
                                      !.processed = TempWavOf(k.taPath)])
            ELSE /\ fs' = fs
                 /\ Goto(c, [k EXCEPT !.pc = "ta_except", !.exc = "CouldntDecodeError"])
     ELSE /\ fs' = fs
          /\ Goto(c, [k EXCEPT !.pc = "ta_infer", !.processed = PathStr(k.taPath)])
  /\ UNCHANGED <<model, current_model_name, active_model, device, env, marker,
                 markerWritable, cache>>

\* line 286: self.model.transcribe is looked up and called
TaInfer(c) ==
  /\ call[c].pc = "ta_infer"
  /\ LET k == call[c] IN
     IF model = None
     THEN Goto(c, [k EXCEPT !.pc = "ta_except", !.exc = "AttributeError"])
     ELSE Goto(c, [k EXCEPT !.pc = "ta_inferring", !.mobj = model])
  /\ UNCHANGED <<model, current_model_name, active_model, device, env, marker,
                 markerWritable, cache, fs>>

\* lines 286-288: the inference returns a result of results after a time of
\* ptimes, or raises
TaInferEnd(c, results, ptimes) ==
  /\ call[c].pc = "ta_inferring"
  /\ LET k == call[c] IN
     IF ~Exists(fs, k.processed)
     THEN Goto(c, [k EXCEPT !.pc = "ta_except", !.infer = "raised",
                           !.exc = "RuntimeError"])
     ELSE \E raised \in BOOLEAN, r \in results, pt \in ptimes :
            IF raised
            THEN Goto(c, [k EXCEPT !.pc = "ta_except", !.infer = "raised",
                                  !.exc = "InferenceError"])
            ELSE Goto(c, [k EXCEPT !.pc = "ta_finish", !.infer = "ok",
                                  !.result = r, !.ptime = pt])
  /\ UNCHANGED <<model, current_model_name, active_model, device, env, marker,
                 markerWritable, cache, fs>>

\* line 291 never true: nothing is unlinked
IsTempNever(k) == FALSE

\* line 291: the path that was transcribed is not the string that was passed
IsTemp(k) == k.processed # k.taPath

\* lines 290-320: clean-up, response, completion log; the unlink of line 292
\* removes the file, or raises (a permission error) and leaves it
TaFinish(c) ==
  /\ call[c].pc = "ta_finish"
  /\ LET k == call[c]
         f == IF IsTemp(k) THEN Unlink(fs, k.processed) ELSE fs
     IN \E removed \in BOOLEAN :
          IF IsTemp(k) /\ ~removed
          THEN /\ fs' = fs
               /\ Goto(c, [k EXCEPT !.pc = "ta_except",
                                    !.exc = "PermissionError",
                                    !.result = NoResult, !.ptime = 0])
          ELSE IF ResponseExc(k.result, k.ptime) # NoExc
          THEN /\ fs' = f
               /\ Goto(c, [k EXCEPT !.pc = "ta_except",
                                    !.exc = ResponseExc(k.result, k.ptime),
                                    !.result = NoResult, !.ptime = 0])
          ELSE TaExit(c, k, RetDict(Response(k.result, k.ptime)), f)
  /\ UNCHANGED <<model, current_model_name, active_model, device, env, marker,
                 markerWritable, cache>>

\* lines 322-331: the except branch
TaExcept(c) ==
  /\ call[c].pc = "ta_except"
  /\ LET k == call[c] IN
     IF FailureExc # NoExc
     THEN TaExit(c, k, Raise(FailureExc), fs)
     ELSE TaExit(c, k, RetDict(Failure(k.exc)), fs)
  /\ UNCHANGED <<model, current_model_name, active_model, device, env, marker,
                 markerWritable, cache>>

(***************************************************************************)
(* transcribe_segments                                                     *)
(***************************************************************************)
\* the (start, end) windows a caller passes
AllWindows == [j \in 1..MaxWindows |-> <<10 * (j - 1), 10 * j>>]

\* the window lists a caller passes: none, the first window, the first two ...
WindowLists == {SubSeq(AllWindows, 1, n) : n \in 0..MaxWindows}

transcribe_segments(c, audio_path, segments) ==
  /\ call[c].pc = "idle"
  /\ LET k == [NewCall("transcribe_segments") EXCEPT !.path = audio_path,
                                                     !.windows = segments]
     IN IF segments = <<>>
        THEN Goto(c, EnterTranscribe(k, audio_path))
        ELSE Goto(c, [k EXCEPT !.pc = "ts_open"])
  /\ UNCHANGED <<model, current_model_name, active_model, device, env, marker,
                 markerWritable, cache, fs>>

\* line 351: AudioSegment.from_file(audio_path)
TsOpen(c) ==
  /\ call[c].pc = "ts_open"
  /\ LET k == call[c] IN
     IF ~Exists(fs, k.path)
     THEN Goto(c, [k EXCEPT !.pc = "ts_except", !.exc = "FileNotFoundError"])
     ELSE \E decoded \in BOOLEAN :
            IF decoded
            THEN Goto(c, [k EXCEPT !.pc = "ts_export", !.i = 0, !.acc = <<>>,
                                  !.total = 0])
            ELSE Goto(c, [k EXCEPT !.pc = "ts_except", !.exc = "CouldntDecodeError"])
  /\ UNCHANGED <<model, current_model_name, active_model, device, env, marker,
                 markerWritable, cache, fs>>

\* lines 356-369: window i is written to its temporary file and transcribed
TsExport(c) ==
  /\ call[c].pc = "ts_export"
  /\ LET k == call[c] IN
     /\ fs' = WriteFile(fs, TempSegmentOf(k.path, k.i), "segment")
     /\ Goto(c, EnterTranscribe(k, TempSegmentOf(k.path, k.i)))
  /\ UNCHANGED <<model, current_model_name, active_model, device, env, marker,
                 markerWritable, cache>>

\* lines 397-405
TsExcept(c) ==
  /\ call[c].pc = "ts_except"
  /\ Return(c, call[c], RetDict(SegmentsFailure(call[c].exc)))
  /\ UNCHANGED <<model, current_model_name, active_model, device, env, marker,
                 markerWritable, cache, fs>>

(***************************************************************************)
(* benchmark_performance                                                   *)
(***************************************************************************)
\* the test durations a caller passes, in seconds
Durations == {30}

benchmark_performance(c, test_duration_seconds) ==
  /\ call[c].pc = "idle"
  /\ Goto(c, [NewCall("benchmark_performance") EXCEPT
                 !.dur = test_duration_seconds, !.pc = "lm_check",
                 !.lmRet = "benchmark_performance"])
  /\ UNCHANGED <<model, current_model_name, active_model, device, env, marker,
                 markerWritable, cache, fs>>

\* lines 433-441: the tone is written and transcribed
BmSynth(c) ==
  /\ call[c].pc = "bm_synth"
  /\ fs' = WriteFile(fs, BenchmarkPath, "tone")
  /\ Goto(c, EnterTranscribe(call[c], BenchmarkPath))
  /\ UNCHANGED <<model, current_model_name, active_model, device, env, marker,
                 markerWritable, cache>>

(***************************************************************************)
(* app.py, render_gpu_tab: the "Test Transcription" button                 *)
(***************************************************************************)
\* app.py lines 380-391: the upload is saved and transcribed
render_gpu_tab(c, ext) ==
  /\ call[c].pc = "idle"
  /\ fs' = WriteFile(fs, UploadPath(ext), "upload")
  /\ Goto(c, EnterTranscribe([NewCall("render_gpu_tab") EXCEPT
                                 !.path = UploadPath(ext)],
                             UploadPath(ext)))
  /\ UNCHANGED <<model, current_model_name, active_model, device, env, marker,
                 markerWritable, cache>>

(***************************************************************************)
(* The environment                                                         *)
(***************************************************************************)
\* the cache directory becomes read-only, or writable again
\* a caller that has its result goes on to its next call
Finish(c) ==
  /\ call[c].pc = "done"
  /\ call' = [call EXCEPT ![c] = IdleCall]
  /\ last' = Summary(call[c])
  /\ UNCHANGED <<model, current_model_name, active_model, device, env, marker,
                 markerWritable, cache, fs>>

\* someone saves a file of their own at one of paths, next to the audio
SaveFile(paths) ==
  /\ AllIdle
  /\ \E p \in paths : fs' = WriteFile(fs, p, "user")
  /\ UNCHANGED <<model, current_model_name, active_model, device, env, marker,
                 markerWritable, cache, call, last>>

ToggleWritable ==
  /\ AllIdle
  /\ markerWritable' = ~markerWritable
  /\ last' = NoCall
  /\ UNCHANGED <<model, current_model_name, active_model, device, env, marker,
                 cache, fs, call>>

(***************************************************************************)
(* Specification                                                           *)
(***************************************************************************)
\* caller c calls a method of the service, with a model name of models, an
\* audio path of paths, a path of segpaths for the segmented mode
Begin(c, models, paths, segpaths) ==
  \/ \E m \in models : switch_model(c, m)
  \/ \E m \in models : download_model(c, m)
  \/ \E m \in models : delete_model(c, m)
  \/ load_model(c)
  \/ \E p \in paths : transcribe_audio(c, p)
  \/ \E p \in segpaths, w \in WindowLists : transcribe_segments(c, p, w)
  \/ \E d \in Durations : benchmark_performance(c, d)

\* caller c takes the next step of the method it is in; an inference returns
\* a result of results after a time of ptimes
Step(c, results, ptimes) ==
  \/ LoadModelCheck(c)
  \/ LoadModelFinish(c)
  \/ TaPrepare(c)
  \/ TaInfer(c)
  \/ TaInferEnd(c, results, ptimes)
  \/ TaFinish(c)
  \/ TaExcept(c)
  \/ TsOpen(c)
  \/ TsExport(c)
  \/ TsExcept(c)
  \/ BmSynth(c)
  \/ Finish(c)

\* the one caller of the sequential specifications
SeqCallers == {"c1"}

\* Spec: sequential use of the whole service with every model name, on one
\* device, one audio file that exists and one that does not
Init == InitOn({"cuda"}, {None}, {Absent, "large-v3"})

Next ==
  \/ \E c \in SeqCallers : AllIdle /\ Begin(c, ModelArgs, {SrcMp3, SrcGone}, {SrcMp3})
  \/ \E c \in SeqCallers : Step(c, {OneSegment}, {25})
  \/ ToggleWritable

Spec == Init /\ [][Next]_vars

\* SpecFiles: sequential use of the transcription methods with every audio
\* path, inference result and timing, on either device, with one model name
InitFiles == InitOn(Devices, {None}, {Absent})

NextFiles ==
  \/ \E c \in SeqCallers : AllIdle /\ Begin(c, {"medium"}, AudioArgs, {SrcMp3, SrcGone})
  \/ \E c \in SeqCallers : Step(c, InferResults, ProcTimes)
  \/ ToggleWritable

SpecFiles == InitFiles /\ [][NextFiles]_vars

\* SpecDisplay: transcriptions started by a caller of the service and by the
\* GPU tab, with every inference result and timing
InitDisplay == InitOn(Devices, {None}, {Absent})

NextDisplay ==
  \/ \E c \in SeqCallers, p \in {SrcMp3, SrcWav} : AllIdle /\ transcribe_audio(c, p)
  \/ \E c \in SeqCallers, e \in UploadExts : AllIdle /\ render_gpu_tab(c, e)
  \/ \E c \in SeqCallers : LoadModelCheck(c)
  \/ \E c \in SeqCallers : LoadModelFinish(c)
  \/ \E c \in SeqCallers : TaPrepare(c)
  \/ \E c \in SeqCallers : TaInfer(c)
  \/ \E c \in SeqCallers : TaInferEnd(c, InferResults, ProcTimes)
  \/ \E c \in SeqCallers : TaFinish(c)
  \/ \E c \in SeqCallers : TaExcept(c)
  \/ \E c \in SeqCallers : Finish(c)

SpecDisplay == InitDisplay /\ [][NextDisplay]_vars

\* SpecRace: two callers use the service at the same time, as the threads of
\* one process may: no method takes a lock, so their steps interleave freely
RaceModels == {"medium"}

InitRace == InitOn({"cuda"}, {None}, {Absent})

NextRace ==
  \/ \E c \in Callers : transcribe_audio(c, SrcMp3)
  \/ \E c \in Callers, m \in RaceModels : switch_model(c, m)
  \/ \E c \in Callers : LoadModelCheck(c)
  \/ \E c \in Callers : LoadModelFinish(c)
  \/ \E c \in Callers : TaPrepare(c)
  \/ \E c \in Callers : TaInfer(c)
  \/ \E c \in Callers : TaInferEnd(c, {OneSegment}, {25})
  \/ \E c \in Callers : TaFinish(c)
  \/ \E c \in Callers : TaExcept(c)
  \/ \E c \in Callers : Finish(c)

SpecRace == InitRace /\ [][NextRace]_vars

\* SpecSiblings: sequential transcriptions of a.mp3, whole and in windows,
\* in a directory where files of the names the service uses for its
\* temporary files may have been saved by someone else
SiblingPaths == {TempWavOf(SrcMp3), TempSegmentOf(SrcMp3, 0)}

InitSiblings == InitOn({"cuda"}, {None}, {Absent})

NextSiblings ==
  \/ \E c \in SeqCallers : AllIdle /\ transcribe_audio(c, SrcMp3)
  \/ \E c \in SeqCallers, w \in WindowLists :
        AllIdle /\ transcribe_segments(c, SrcMp3, w)
  \/ \E c \in SeqCallers : LoadModelCheck(c)
  \/ \E c \in SeqCallers : LoadModelFinish(c)
  \/ \E c \in SeqCallers : TaPrepare(c)
  \/ \E c \in SeqCallers : TaInfer(c)
  \/ \E c \in SeqCallers : TaInferEnd(c, {OneSegment}, {25})
  \/ \E c \in SeqCallers : TaFinish(c)
  \/ \E c \in SeqCallers : TaExcept(c)
  \/ \E c \in SeqCallers : TsOpen(c)
  \/ \E c \in SeqCallers : TsExport(c)
  \/ \E c \in SeqCallers : TsExcept(c)
  \/ \E c \in SeqCallers : Finish(c)
  \/ SaveFile(SiblingPaths)

SpecSiblings == InitSiblings /\ [][NextSiblings]_vars

\* SpecStartup: the preference across restarts of the process, with every
\* environment value and marker content
InitStartup == InitOn({"cuda"}, EnvValues, MarkerValues)

NextStartup ==
  \/ \E c \in SeqCallers, m \in ModelArgs : AllIdle /\ switch_model(c, m)
  \/ \E c \in SeqCallers : Finish(c)
  \/ Restart(EnvValues)
  \/ ToggleWritable

SpecStartup == InitStartup /\ [][NextStartup]_vars

(***************************************************************************)
(* Properties                                                              *)
(***************************************************************************)
\* caller c has just got the outcome of a call of method op
Returned(c, op) == call[c].pc = "done" /\ call[c].op = op

HandleAbsent == model = None /\ current_model_name = None

\* the loaded handle is what it was when the call with locals k started
HandleKept(k) ==
  model = k.pre.model /\ current_model_name = k.pre.current_model_name

\* C1: when the model is loaded and the inference raises, transcribe_audio
\* returns the failure dict (success False, empty text, error, model_used,
\* device_used) and raises nothing.
C1_InferenceFailureIsAResult ==
  \A c \in Callers :
    Returned(c, "transcribe_audio") /\ call[c].infer = "raised" =>
      /\ call[c].ret.kind = "return"
      /\ call[c].ret.dict.success = FALSE
      /\ call[c].ret.dict.text = <<>>
      /\ {"error", "model_used", "device_used"} \subseteq call[c].ret.dict.keys
      /\ call[c].ret.dict.device_used = device

\* C2: when the model is loaded and the inference returns, transcribe_audio
\* returns the success dict, with model_used the name of the loaded model.
C2_InferenceSuccessIsSuccess ==
  \A c \in Callers :
    Returned(c, "transcribe_audio") /\ call[c].infer = "ok" =>
      /\ call[c].ret.kind = "return"
      /\ call[c].ret.dict.success = TRUE
      /\ call[c].ret.dict.model_used = current_model_name

\* C3: a temporary WAV file that transcribe_audio created is gone when
\* transcribe_audio returns or raises.
C3_TempFileRemoved ==
  \A c \in Callers :
    Returned(c, "transcribe_audio") /\ call[c].made =>
      ~Exists(fs, call[c].processed)

\* C4: sequential use: whenever a model is loaded (a model object or a loaded
\* name is held), the loaded name is the active preference and the object
\* is the model of that name.
C4_LoadedIsActive ==
  (model # None \/ current_model_name # None) =>
    current_model_name = active_model /\ model = current_model_name

\* a model is loaded after a call that failed
C4_Witness ==
  \E c \in Callers :
    /\ Returned(c, "benchmark_performance")
    /\ call[c].ret.kind = "raise"
    /\ model # None /\ current_model_name = "medium"

\* the model objects the service holds or is constructing
Resident ==
  (IF model # None THEN 1 ELSE 0)
  + Cardinality({c \in Callers : call[c].pc = "lm_loading"})

C6_FailedLoadLeavesNoHandle ==
  \A c \in Callers :
    /\ Returned(c, "load_model") /\ ~call[c].ret.ok =>
         HandleAbsent /\ call[c].loads = 1 /\ call[c].ret.kind = "return"
    /\ Returned(c, "transcribe_audio") /\ call[c].ret.exc = "RuntimeError" =>
         HandleAbsent /\ call[c].loads = 1
    /\ Returned(c, "load_model") /\ last.op = "load_model" /\ ~last.ok =>
         call[c].loads = 1

\* a load_model that succeeded right after one that failed
C6_Witness ==
  \E c \in Callers :
    /\ Returned(c, "load_model") /\ call[c].ret.ok /\ call[c].loads = 1
    /\ last.op = "load_model" /\ ~last.ok /\ last.loads = 1

\* C7: sequential use: a load_model right after a load_model that returned
\* True loads nothing, returns True and leaves the handle as it was; the two
\* calls make one whisper.load_model call in total when the first started
\* with no model loaded (and none when the model was loaded already).
C7_SecondLoadIsNoOp ==
  \A c \in Callers :
    Returned(c, "load_model") /\ last.op = "load_model" /\ last.ok =>
      /\ call[c].loads = 0
      /\ call[c].ret.ok
      /\ HandleKept(call[c])
      /\ model # None
      /\ last.loads + call[c].loads = (IF last.cold THEN 1 ELSE 0)

\* the second of two load_model calls, the first of which loaded the model
C7_Witness ==
  \E c \in Callers :
    /\ Returned(c, "load_model") /\ call[c].loads = 0
    /\ last.op = "load_model" /\ last.ok /\ last.cold /\ last.loads = 1

\* C8: a switch_model(X) that returns True leaves X as the active preference
\* and as the content of the marker file; a loaded model of another name is
\* unloaded; nothing is loaded: a handle is held afterwards only if X was the
\* loaded model, and then it is the same handle.
C8_SwitchEffect ==
  \A c \in Callers :
    Returned(c, "switch_model") /\ call[c].ret.ok =>
      /\ active_model = call[c].name
      /\ marker = call[c].name
      /\ call[c].loads = 0
      /\ (call[c].pre.model # None /\ call[c].pre.current_model_name # call[c].name
            => HandleAbsent)
      /\ (~HandleAbsent =>
            /\ call[c].pre.model # None
            /\ call[c].pre.current_model_name = call[c].name
            /\ HandleKept(call[c]))

\* a switch away from the loaded model
C8_Witness ==
  \E c \in Callers :
    /\ Returned(c, "switch_model") /\ call[c].ret.ok
    /\ call[c].pre.model # None
    /\ call[c].pre.current_model_name # call[c].name
    /\ HandleAbsent

\* C9: sequential use: a switch_model(X) right after a switch_model(X) leaves
\* the loaded handle as the first call left it and loads nothing.
C9_SecondSwitchIsNoOp ==
  \A c \in Callers :
    /\ Returned(c, "switch_model")
    /\ call[c].name \in AVAILABLE_MODELS
    /\ last.op = "switch_model" /\ last.name = call[c].name
    => HandleKept(call[c]) /\ call[c].loads = 0

\* the second of two switch_model(X), the first of which unloaded a model
C9_Witness ==
  \E c \in Callers :
    /\ Returned(c, "switch_model") /\ call[c].ret.ok
    /\ last.op = "switch_model" /\ last.name = call[c].name
    /\ last.ok /\ last.unloaded

\* C10: switch_model with a name that is not cataloged returns False and
\* leaves the active preference, the marker file and the handle as they were.
C10_UnknownSwitchChangesNothing ==
  \A c \in Callers :
    Returned(c, "switch_model") /\ call[c].name \notin AVAILABLE_MODELS =>
      /\ call[c].ret.kind = "return" /\ ~call[c].ret.ok
      /\ active_model = call[c].pre.active_model
      /\ marker = call[c].pre.marker
      /\ HandleKept(call[c])

\* an unknown name is refused while a model is loaded and the marker file
\* could be written
C10_Witness ==
  \E c \in Callers :
    /\ Returned(c, "switch_model") /\ call[c].name = "bogus"
    /\ ~call[c].ret.ok
    /\ model # None /\ markerWritable

\* C11: right after construction the active preference is the environment
\* value when that names a cataloged model, otherwise the (trimmed) content of
\* the marker file when that names a cataloged model, otherwise 'turbo'; an
\* unset, empty, unreadable or uncataloged value is skipped, and the
\* preference is always cataloged.
JustConstructed == AllIdle /\ last.op = "__init__"

C11_PreferenceResolution ==
  JustConstructed =>
    /\ active_model \in AVAILABLE_MODELS
    /\ env \in AVAILABLE_MODELS => active_model = env
    /\ env \notin AVAILABLE_MODELS /\ StripText(marker) \in AVAILABLE_MODELS =>
         active_model = StripText(marker)
    /\ env \notin AVAILABLE_MODELS /\ StripText(marker) \notin AVAILABLE_MODELS =>
         active_model = "turbo"

\* a restart with an uncataloged environment value and a marker file written
\* by an earlier switch resolves to the marker's model
C11_Witness ==
  /\ JustConstructed
  /\ env = "bogus" /\ marker = "medium" /\ active_model = "medium"

\* C12: when delete_model was called for the loaded model and has removed
\* that model's checkpoint from the cache directory, no model is loaded any
\* more, whether delete_model returned True or failed part-way.
C12_DeleteClearsHandle ==
  \A c \in Callers :
    /\ Returned(c, "delete_model")
    /\ call[c].pre.model # None
    /\ call[c].pre.current_model_name = call[c].name
    /\ CacheFileOf(call[c].name) \in call[c].pre.cache \ cache
    => HandleAbsent

\* C13: transcribe_audio on a path that does not exist, with the model
\* loaded, raises FileNotFoundError to its caller: it returns no dict and
\* raises no other exception.
C13_NotFoundPropagates ==
  \A c \in Callers :
    /\ Returned(c, "transcribe_audio")
    /\ ~Exists(call[c].pre.fs, call[c].path)
    /\ AlreadyLoaded
    => call[c].ret = Raise("FileNotFoundError")

\* C14: when the inference has returned, transcribe_audio returns the success
\* dict whose audio_duration_seconds is the end of the last segment of the
\* inference result, and 0 when the result has no segments, be it an empty
\* list or a missing key.
C14_DurationIsLastEnd ==
  [][\A c \in Callers :
       call[c].pc = "ta_finish" /\ call[c].op = "transcribe_audio"
       /\ call'[c] # call[c] =>
         /\ call'[c].pc = "done"
         /\ call'[c].ret.kind = "return"
         /\ call'[c].ret.dict.success = TRUE
         /\ call'[c].ret.dict.audio_duration_seconds =
              (IF call[c].result.segments = <<>> THEN 0
               ELSE call[c].result.segments[Len(call[c].result.segments)].end)]_vars

\* C15: when the inference has taken no time, neither the completion log of
\* transcribe_audio nor the speed metric of the GPU tab raises a division by
\* zero: transcribe_audio returns its success dict, and the tab shows the
\* result without an error and without a speed computed from a zero time.
C15_ZeroTimeIsNoError ==
  [][\A c \in Callers :
       /\ call[c].pc = "ta_finish"
       /\ call[c].op \in {"transcribe_audio", "render_gpu_tab"}
       /\ call[c].result.segments # <<>>
       /\ call[c].ptime = 0
       /\ call'[c] # call[c]
       => /\ call'[c].pc = "done"
          /\ call'[c].ret.kind = "return"
          /\ "error" \notin call'[c].ret.dict.keys
          /\ call'[c].ret.dict.success = TRUE
          /\ "speed_multiplier" \notin call'[c].ret.dict.keys]_vars

\* transcribe_segments has returned to c after handing at least one window
\* of a non-empty list to transcribe_audio
SegmentsRan(c) ==
  /\ Returned(c, "transcribe_segments")
  /\ call[c].windows # <<>>
  /\ call[c].taPath # NoPath

RECURSIVE SumTimes(_)
SumTimes(segs) ==
  IF segs = <<>> THEN 0 ELSE Head(segs).processing_time + SumTimes(Tail(segs))

\* C16: with a non-empty window list, whatever happens to the transcription
\* of the single windows (failure dict, or an exception such as the one of a
\* model that fails to load), transcribe_segments returns success True; its
\* text is the join of the texts of the segments it reports and its total
\* time the sum of their times; with no window succeeding the text is empty.
C16_WindowFailuresAreSkipped ==
  \A c \in Callers :
    SegmentsRan(c) =>
      /\ call[c].ret.kind = "return"
      /\ call[c].ret.dict.success = TRUE
      /\ call[c].ret.dict.text =
           Join([j \in 1..Len(call[c].ret.dict.segments) |->
                   call[c].ret.dict.segments[j].text])
      /\ call[c].ret.dict.total_processing_time_seconds =
           SumTimes(call[c].ret.dict.segments)

\* C17: when transcribe_segments returns, none of the temporary files of its
\* windows exists, whether the windows' transcriptions succeeded, failed or
\* raised.
C17_NoSegmentFileLeft ==
  \A c \in Callers :
    SegmentsRan(c) =>
      \A j \in 1..Len(call[c].windows) :
        ~Exists(fs, TempSegmentOf(call[c].path, j - 1))

\* C18: when the inference of the last window has returned, the result of
\* transcribe_segments reports segments; its text is their texts joined by
\* two newlines, and their segment numbers are 1-based positions of the
\* window list in increasing order.
C18_JoinedInWindowOrder ==
  \A c \in Callers :
    SegmentsRan(c) /\ call[c].infer = "ok" =>
      LET d == call[c].ret.dict IN
        /\ call[c].ret.kind = "return"
        /\ d.segments # <<>>
        /\ d.text = Join([j \in 1..Len(d.segments) |-> d.segments[j].text])
        /\ \A j \in 1..Len(d.segments) :
             /\ d.segments[j].segment_number \in 1..Len(call[c].windows)
             /\ j > 1 => d.segments[j - 1].segment_number
                            < d.segments[j].segment_number

\* benchmark_performance has returned to c after writing its tone
BenchmarkRan(c) ==
  Returned(c, "benchmark_performance") /\ call[c].taPath = BenchmarkPath

\* C19: when the inference on the tone has returned, benchmark_performance
\* returns a dict without 'error' whose speed_multiplier is the test duration
\* over the processing time, and a dict without a computed speed when the
\* processing time is 0; it does not raise.
C19_SpeedMultiplier ==
  \A c \in Callers :
    BenchmarkRan(c) /\ call[c].infer = "ok" =>
      LET d == call[c].ret.dict IN
        /\ call[c].ret.kind = "return"
        /\ "error" \notin d.keys
        /\ d.test_duration_seconds = call[c].dur
        /\ d.processing_time_seconds > 0 =>
             d.speed_multiplier = <<call[c].dur, d.processing_time_seconds>>
        /\ d.processing_time_seconds = 0 => "speed_multiplier" \notin d.keys

\* C20: when benchmark_performance returns or raises after writing its tone,
\* the tone file does not exist.
C20_ToneFileRemoved ==
  \A c \in Callers :
    BenchmarkRan(c) => ~Exists(fs, BenchmarkPath)

\* C21: when the inference has returned and the temporary WAV file could not
\* be removed (it is still there when the call ends), transcribe_audio
\* returns the success dict with the text all the same.
C21_UnlinkFailureNotEscalated ==
  \A c \in Callers :
    /\ Returned(c, "transcribe_audio")
    /\ call[c].infer = "ok" /\ call[c].made
    /\ Exists(fs, call[c].processed)
    => /\ call[c].ret.kind = "return"
       /\ call[c].ret.dict.success = TRUE
       /\ "text" \in call[c].ret.dict.keys

\* C22: _prepare_audio on an existing file whose suffix is .wav in any
\* letter case returns the path of that file, makes no temporary file and
\* leaves every file as it was.
C22_CanonicalIsReturnedAsIs ==
  [][\A c \in Callers :
       /\ call[c].pc = "ta_prepare"
       /\ Exists(fs, call[c].taPath)
       /\ Lower(call[c].taPath.ext) = ".wav"
       /\ call'[c] # call[c]
       => /\ call'[c].pc = "ta_infer"
          /\ call'[c].processed = PathStr(call[c].taPath)
          /\ ~call'[c].made
          /\ fs' = fs]_vars

\* an uploaded file with the suffix .WAV has been prepared
C22_Witness ==
  \E c \in Callers :
    /\ call[c].pc = "ta_infer"
    /\ call[c].taPath.ext = ".WAV"
    /\ Exists(fs, call[c].taPath)
    /\ call[c].processed = PathStr(call[c].taPath)

\* C23: nothing holds back a switch_model of one caller while the inference
\* of another caller's transcribe_audio is running on the loaded model: the
\* switch to another name succeeds, clears the handle and sets the
\* preference, and the running call goes on with the model object it has, so
\* it finishes with a model that is no longer loaded nor preferred.
C23_SwitchDuringInference ==
  [][\A c, c2 \in Callers :
       /\ c # c2
       /\ call[c].pc = "ta_inferring" /\ call[c].mobj = model
       /\ call[c2].pc = "idle"
       /\ call'[c2].pc = "done" /\ call'[c2].op = "switch_model"
       /\ call'[c2].ret.ok
       /\ current_model_name # call'[c2].name
       => /\ call'[c] = call[c]
          /\ model' = None /\ current_model_name' = None
          /\ active_model' = call'[c2].name
          /\ active_model' # call'[c].mobj]_vars

\* an inference on turbo has returned after the other caller switched to
\* medium: no model is loaded and the preference is medium
C23_Witness ==
  \E c \in Callers :
    /\ call[c].pc = "ta_finish" /\ call[c].infer = "ok"
    /\ call[c].mobj = "turbo"
    /\ call[c].pre.active_model = "turbo"
    /\ HandleAbsent
    /\ active_model = "medium"

\* C24: two transcribe_audio calls on the same source that needs conversion
\* work on the same temporary file: when one of them gets past its unlink
\* of line 292 while the inference of the other is still running, the file
\* the running inference reads is gone.
C24_SharedTempFile ==
  [][\A c, c2 \in Callers :
       /\ c # c2
       /\ call[c].pc = "ta_inferring" /\ call[c].made
       /\ call[c2].pc = "ta_finish" /\ call[c2].taPath = call[c].taPath
       /\ call'[c2] # call[c2]
       /\ call'[c2].exc # "PermissionError"
       => /\ call[c2].processed = call[c].processed
          /\ call'[c] = call[c]
          /\ ~Exists(fs', call[c].processed)]_vars

\* an inference is running on a temporary file that the other caller's
\* transcribe_audio of the same source has already removed
C24_Witness ==
  \E c, c2 \in Callers :
    /\ c # c2
    /\ call[c].pc = "ta_inferring" /\ call[c].made
    /\ call[c2].op = "transcribe_audio" /\ call[c2].taPath = call[c].taPath
    /\ call[c2].infer = "ok" /\ call[c2].pc \in {"ta_except", "done"}
    /\ ~Exists(fs, call[c].processed)

\* C25: when transcribe_audio returns or raises, the audio file it was
\* called on, if it existed, still exists with the content it had, however
\* the caller spelled its path.
C25_SourceIsKept ==
  \A c \in Callers :
    Returned(c, "transcribe_audio") /\ Exists(call[c].pre.fs, call[c].path) =>
      /\ Exists(fs, call[c].path)
      /\ fs[PathStr(call[c].path)] = call[c].pre.fs[PathStr(call[c].path)]

\* the names transcribe_audio and transcribe_segments use for temporary
\* files when called with the locals k
TempNames(k) ==
  {TempWavOf(k.path)} \cup {TempSegmentOf(k.path, j - 1) : j \in 1..Len(k.windows)}

\* C26: a file that existed before a call of transcribe_audio or
\* transcribe_segments under one of the temporary names still exists with
\* its content when the call returns.
C26_SiblingsAreKept ==
  \A c \in Callers :
    Returned(c, "transcribe_audio") \/ Returned(c, "transcribe_segments") =>
      \A p \in TempNames(call[c]) :
        Exists(call[c].pre.fs, p) =>
          /\ Exists(fs, p)
          /\ fs[PathStr(p)] = call[c].pre.fs[PathStr(p)]

\* the step is a restart in an unchanged environment, right after a
\* switch_model that returned True
RestartAfterSwitch ==
  /\ last.op = "switch_model" /\ last.ok
  /\ last'.op = "__init__"
  /\ env' = env

\* C27 as stated: a service constructed right after a successful
\* switch_model(X), in the same environment, has X as its active preference,
\* whatever WHISPER_MODEL is.
C27_SwitchSurvivesRestart ==
  [][RestartAfterSwitch => active_model' = last.name]_vars

\* C27, amended: a service constructed right after a successful
\* switch_model(X), in the same environment, has X as its active preference
\* when WHISPER_MODEL is unset, empty or names no cataloged model; when it
\* names a cataloged model, that model is the preference, X or not.
C27_SwitchSurvivesRestartUnlessEnv ==
  [][RestartAfterSwitch =>
       /\ marker' = last.name
       /\ env' \notin AVAILABLE_MODELS => active_model' = last.name
       /\ env' \in AVAILABLE_MODELS => active_model' = env']_vars

\* a service restarted with an empty WHISPER_MODEL after a switch to medium
C27_Witness ==
  /\ JustConstructed
  /\ env = "" /\ marker = "medium" /\ active_model = "medium"

\* C28: a switch_model to a cataloged name while the marker file cannot be
\* written returns False and leaves the active preference, the loaded handle
\* and the marker file as they were; a marker file that exists always holds
\* the active preference.
C28_FailedSwitchKeepsState ==
  /\ \A c \in Callers :
       /\ Returned(c, "switch_model")
       /\ call[c].name \in AVAILABLE_MODELS
       /\ ~markerWritable
       => /\ ~call[c].ret.ok
          /\ active_model = call[c].pre.active_model
          /\ HandleKept(call[c])
          /\ marker = call[c].pre.marker
  /\ marker # Absent => active_model = marker

\* a switch to another model than the loaded one has failed on the write
C28_Witness ==
  \E c \in Callers :
    /\ Returned(c, "switch_model") /\ ~call[c].ret.ok
    /\ ~markerWritable
    /\ call[c].name = "medium"
    /\ model = "turbo" /\ current_model_name = "turbo" /\ active_model = "turbo"

\* C29: delete_model leaves the active preference and the marker file as
\* they were, also when it deletes the active model; when no file of the
\* cache matches the name it returns False and leaves the handle and the
\* cache as they were.
C29_DeleteKeepsPreference ==
  \A c \in Callers :
    Returned(c, "delete_model") =>
      /\ active_model = call[c].pre.active_model
      /\ marker = call[c].pre.marker
      /\ {f \in call[c].pre.cache : GlobMatches(f, call[c].name)} = {} =>
           /\ ~call[c].ret.ok
           /\ HandleKept(call[c])
           /\ cache = call[c].pre.cache

\* the active model, loaded, has been deleted and is still the preference,
\* while another model's checkpoint is still in the cache
C29_Witness ==
  \E c \in Callers :
    /\ Returned(c, "delete_model") /\ call[c].ret.ok
    /\ call[c].name = active_model
    /\ call[c].pre.current_model_name = call[c].name
    /\ marker = active_model
    /\ cache # {}

\* the callers inside whisper.load_model whose call began with no model loaded
ColdLoading ==
  {c \in Callers : call[c].pc = "lm_loading" /\ call[c].pre.model = None}

\* C30 as stated: when the callers run _load_model at the same time with no
\* model loaded, at most one of them is loading and at most one model object
\* is resident.
C30_OneLoadForConcurrentCallers ==
  /\ Cardinality(ColdLoading) <= 1
  /\ ColdLoading # {} => Resident <= 1

\* C30, amended: each call of _load_model makes at most one load of its own,
\* so concurrent callers that find no model loaded may each be loading, and
\* the model objects resident are never more than one per caller.
C30_OneLoadPerCaller ==
  /\ \A c \in Callers : call[c].loads <= 1
  /\ Resident <= Cardinality(Callers)

\* both callers are inside whisper.load_model, each for a call that found no
\* model loaded
C30_Witness ==
  /\ ColdLoading = Callers
  /\ \A c \in Callers : call[c].loads = 1
  /\ HandleAbsent

====
